---- MODULE Spec2Model ----
(***************************************************************************)
(* Conversation templates of LMFlow (qwen.py, yi.py): the Jinja chat       *)
(* templates QWEN2_5_TEMPLATE (and its 1M, MATH and QWQ variants) and      *)
(* QWEN3_TEMPLATE, rendered one template statement group at a time, and    *)
(* the declarative templates qwen2, qwen2_for_tool and yi1_5.              *)
(*                                                                         *)
(* A string is a sequence of tokens: a token is either one of the markers  *)
(* the templates test or emit as a unit ("<|im_start|>", "</think>", ...)  *)
(* or one character of message text.  Offsets and lengths count tokens.    *)
(***************************************************************************)
EXTENDS Integers, Sequences, FiniteSets, TLC

\* ------------------------------------------------------------------ bounds

\* Longest conversation rendered.
MaxMsgs == 3
\* Longest assistant content (in tokens) of the reasoning-split conversations.
MaxContentLen == 4

\* ------------------------------------------------------------------ tokens

IM_START == "<|im_start|>"
IM_END == "<|im_end|>"
NL == "\n"
THINK == "<think>"
END_THINK == "</think>"
TOOL_RESPONSE == "<tool_response>"
END_TOOL_RESPONSE == "</tool_response>"
TOOL_CALL == "<tool_call>"
END_TOOL_CALL == "</tool_call>"

\* ------------------------------------------------- string methods (Python)

Last(s) == s[Len(s)]

Reverse(s) == [k \in 1..Len(s) |-> s[Len(s) + 1 - k]]

Contains(s, tok) == \E k \in 1..Len(s) : s[k] = tok

StartsWith(s, tok) == Len(s) > 0 /\ s[1] = tok

EndsWith(s, tok) == Len(s) > 0 /\ s[Len(s)] = tok

RECURSIVE LStrip(_, _)
LStrip(s, ch) ==
    IF Len(s) > 0 /\ Head(s) = ch THEN LStrip(Tail(s), ch) ELSE s

RECURSIVE RStrip(_, _)
RStrip(s, ch) ==
    IF Len(s) > 0 /\ s[Len(s)] = ch THEN RStrip(SubSeq(s, 1, Len(s) - 1), ch) ELSE s

Strip(s, ch) == LStrip(RStrip(s, ch), ch)

\* s.split(sep): the pieces of s between the occurrences of sep, in order.
RECURSIVE Split(_, _)
Split(s, sep) ==
    IF ~Contains(s, sep)
    THEN <<s>>
    ELSE LET k == CHOOSE j \in 1..Len(s) :
                     s[j] = sep /\ \A h \in 1..(j - 1) : s[h] # sep
         IN  <<SubSeq(s, 1, k - 1)>> \o Split(SubSeq(s, k + 1, Len(s)), sep)

\* ---------------------------------------------------------------- messages

JinjaTemplates25 == {"qwen2_5", "qwen2_5_1m", "qwen2_5_math", "qwen_qwq"}
JinjaTemplates == JinjaTemplates25 \cup {"qwen3"}
DeclarativeTemplates == {"qwen2", "qwen2_for_tool", "yi1_5"}

\* An attribute a message may lack: kind "undefined" (no such attribute),
\* "none" (null) or "value".
Undefined == [kind |-> "undefined", val |-> <<>>]
None == [kind |-> "none", val |-> <<>>]
Value(v) == [kind |-> "value", val |-> v]

Msg(r, c, tc, rc) ==
    [role |-> r, content |-> c, tool_calls |-> tc, reasoning_content |-> rc]

\* One tool call, {"name": ..., "arguments": {...}}, given directly or under
\* a "function" key; its arguments are an object or an already serialized string.
ToolCall(n, a, isStr, wrapped) ==
    [name |-> n, arguments |-> a, is_string |-> isStr, function |-> wrapped]

\* JSON serialization of a template value ("| tojson"): an object becomes its
\* JSON text, a string becomes that text inside double quotes.
ToJson(v, isStr) == IF isStr THEN <<"\"">> \o v \o <<"\"">> ELSE v

\* ------------------------------------------------------------------ inputs

ToolLists == {<<>>, <<(<<"{tool}">>)>>}

TheCall == ToolCall(<<"f">>, <<"{args}">>, FALSE, TRUE)

SystemMsgs == {Msg("system", <<"s">>, Undefined, Undefined)}

\* A user turn is a query or, for QWEN3_TEMPLATE (the one template that tells
\* them apart), the echo of a tool response.
UserMsgs(t) ==
    {Msg("user", c, Undefined, Undefined) :
        c \in IF t = "qwen3"
              THEN {<<"q">>, <<TOOL_RESPONSE, NL, "x", NL, END_TOOL_RESPONSE>>}
              ELSE {<<"q">>}}

ToolMsgs == {Msg("tool", <<"A">>, Undefined, Undefined)}

\* Content and tool_calls of an assistant turn: text without tool calls (the
\* attribute missing, or an empty list), text with a call, a call alone.
AssistantShapes ==
    {<<(<<"c">>), Undefined>>, <<(<<"c">>), Value(<<>>)>>,
     <<(<<"c">>), Value(<<TheCall>>)>>, <<(<<>>), Value(<<TheCall>>)>>}

\* QWEN2_5_TEMPLATE never reads reasoning_content: its assistant turns carry none.
AssistantMsgs(t) ==
    {Msg("assistant", sh[1], sh[2], rc) :
        sh \in AssistantShapes,
        rc \in IF t = "qwen3" THEN {Undefined, Value(<<"r">>)} ELSE {Undefined}}

\* A message whose role no branch of the templates tests for.
OtherMsgs == {Msg("developer", <<"d">>, Undefined, Undefined)}

Messages(t) ==
    SystemMsgs \cup UserMsgs(t) \cup ToolMsgs \cup AssistantMsgs(t) \cup OtherMsgs

SeqsUpTo(S, n) == UNION {[1..k -> S] : k \in 0..n}

Conversations(t) == SeqsUpTo(Messages(t), MaxMsgs)

\* Contents of the reasoning-split conversations: every string of at most
\* MaxContentLen tokens over text, space, newline and the two think markers.
ThinkAlphabet == {"a", " ", NL, THINK, END_THINK}

ThinkContents == SeqsUpTo(ThinkAlphabet, MaxContentLen)

ThinkConversations ==
    {<<Msg("user", <<"q">>, Undefined, Undefined), Msg("assistant", c, Undefined, rc)>> :
        c \in ThinkContents, rc \in {Undefined, None, Value(<<"r">>)}}

\* Conversations of the declarative templates: the four roles, an assistant
\* turn that carries tool calls instead of content, and a role no formatter is for.
DeclMessages ==
    {Msg("system", <<"s">>, Undefined, Undefined),
     Msg("user", <<"q">>, Undefined, Undefined),
     Msg("assistant", <<"c">>, Undefined, Undefined),
     Msg("assistant", <<>>, Value(<<TheCall>>), Undefined),
     Msg("tool", <<"A">>, Undefined, Undefined),
     Msg("developer", <<"d">>, Undefined, Undefined)}

DeclConversations == SeqsUpTo(DeclMessages, MaxMsgs)

\* ------------------------------------------------------------------- state

VARIABLES
    template,               \* name of the template being rendered
    messages,               \* the conversation
    tools,                  \* the tool list
    add_generation_prompt,  \* render flag
    enable_thinking,        \* render flag: "undefined", "true" or "false"
    pc,                     \* "idle", "scan", "loop", "prompt", "done", "error"
    index0,                 \* loop.index0 of the message loop
    rindex0,                \* loop.index0 of the reverse scan of QWEN3_TEMPLATE
    ns,                     \* the namespace object of QWEN3_TEMPLATE
    content,                \* QWEN3_TEMPLATE's "content" of the last assistant turn
    reasoning_content,      \* QWEN3_TEMPLATE's "reasoning_content" of that turn
    out,                    \* the rendered output so far
    spans,                  \* generation spans recorded so far
    genStack,               \* start offsets of the generation blocks still open
    maxOpen,                \* most generation blocks ever open at once
    seg,                    \* per rendered message: <<start, end>> of its text in out
    visited,                \* reverse scan: <<index, message>> per iteration
    err,                    \* the error that ended the render, or "none"
    encoding,               \* encoder: the tokenizer's <<id, start, end>> per token
    input_ids,              \* encoder: the token id sequence produced
    labels,                 \* encoder: the label sequence produced
    output_dir,             \* finetuner_args.output_dir: what is at that path
    do_train,               \* finetuner_args.do_train
    overwrite_output_dir,   \* finetuner_args.overwrite_output_dir
    resume_from_checkpoint, \* finetuner_args.resume_from_checkpoint, or "None"
    last_checkpoint,        \* Finetuner.last_checkpoint, or "None"
    seed,                   \* whether set_seed has run
    data_block_size,        \* data_args.block_size: kind "none", or "value" and val
    model_max_length,       \* the model's maximum length
    truncate_to_model_max_length, \* model_args.truncate_to_model_max_length
    block_size,             \* the block size group_text settled on
    examples,               \* the batch handed to group_texts: key -> list of lists
    result,                 \* what group_texts returned: key -> list of chunks
    checkpoint              \* what trainer.train resumed from, or "None"

encoderVars == <<encoding, input_ids, labels>>

finetunerVars ==
    <<output_dir, do_train, overwrite_output_dir, resume_from_checkpoint,
      last_checkpoint, seed, data_block_size, model_max_length,
      truncate_to_model_max_length, block_size, examples, result, checkpoint>>

vars ==
    <<template, messages, tools, add_generation_prompt, enable_thinking, pc,
      index0, rindex0, ns, content, reasoning_content, out, spans, genStack,
      maxOpen, seg, visited, err, encoderVars, finetunerVars>>

NoNamespace == [multi_step_tool |-> TRUE, last_query_index |-> 0 - 1]

InitRender ==
    /\ tools = <<>>
    /\ add_generation_prompt = FALSE
    /\ enable_thinking = "undefined"
    /\ pc = "idle"
    /\ index0 = 0
    /\ rindex0 = 0
    /\ ns = NoNamespace
    /\ content = <<>>
    /\ reasoning_content = <<>>
    /\ out = <<>>
    /\ spans = <<>>
    /\ genStack = <<>>
    /\ maxOpen = 0
    /\ seg = <<>>
    /\ visited = <<>>
    /\ err = "none"

\* No encoder run: nothing tokenized, nothing produced.
InitEncoder ==
    /\ encoding = <<>>
    /\ input_ids = <<>>
    /\ labels = <<>>

\* No Finetuner: no arguments read, nothing constructed.
InitFinetuner ==
    /\ output_dir = "absent"
    /\ do_train = FALSE
    /\ overwrite_output_dir = FALSE
    /\ resume_from_checkpoint = "None"
    /\ last_checkpoint = "None"
    /\ seed = FALSE
    /\ data_block_size = [kind |-> "none", val |-> 0]
    /\ model_max_length = 0
    /\ truncate_to_model_max_length = FALSE
    /\ block_size = 0
    /\ examples = <<>>
    /\ result = <<>>
    /\ checkpoint = "None"

Init ==
    /\ InitRender
    /\ InitEncoder
    /\ InitFinetuner
    /\ \/ /\ template \in JinjaTemplates
          /\ messages \in Conversations(template)
       \/ /\ template = "qwen3"
          /\ messages \in ThinkConversations
       \/ /\ template \in DeclarativeTemplates
          /\ messages \in DeclConversations

\* ------------------------------------------------------- template evaluator

Emit(s) == [op |-> "emit", text |-> s]
Generation == [op |-> "generation", text |-> <<>>]
EndGeneration == [op |-> "endgeneration", text |-> <<>>]

Max(a, b) == IF a >= b THEN a ELSE b

\* The evaluator's buffer: the output, the spans, the open generation blocks.
Buffer == [out |-> out, spans |-> spans, stack |-> genStack, maxOpen |-> maxOpen]

\* {% generation %} notes the output length; {% endgeneration %} records the
\* span from the noted length to the current one.
Step(st, o) ==
    CASE o.op = "emit" -> [st EXCEPT !.out = @ \o o.text]
      [] o.op = "generation" ->
            [st EXCEPT !.stack = Append(@, Len(st.out)),
                       !.maxOpen = Max(@, Len(st.stack) + 1)]
      [] o.op = "endgeneration" ->
            [st EXCEPT !.spans = Append(@, <<Last(st.stack), Len(st.out)>>),
                       !.stack = SubSeq(@, 1, Len(@) - 1)]

RECURSIVE Run(_, _)
Run(ops, st) == IF ops = <<>> THEN st ELSE Run(Tail(ops), Step(st, Head(ops)))

\* The statements `ops` evaluated against the buffer.
Render(ops) ==
    LET st == Run(ops, Buffer)
    IN  /\ out' = st.out
        /\ spans' = st.spans
        /\ genStack' = st.stack
        /\ maxOpen' = st.maxOpen

\* Mutant: an attribute is true as soon as it is defined, an empty list included.
TruthyDefined(a) == a.kind = "value"

\* Jinja truth of an attribute: defined, not none and not empty.
Truthy(a) == a.kind = "value" /\ a.val # <<>>

\* --------------------------------------------------- literals of the templates

DefaultPrompt(t) ==
    CASE t = "qwen2_5" ->
            "You are Qwen, created by Alibaba Cloud. You are a helpful assistant."
      [] t = "qwen2_5_1m" -> "You are a helpful assistant."
      [] t = "qwen2_5_math" ->
            "Please reason step by step, and put your final answer within \\boxed{}."
      [] t = "qwen_qwq" ->
            "You are a helpful and harmless assistant. You are Qwen developed by Alibaba. You should think step-by-step."

TOOLS_INTRO ==
    "# Tools\n\nYou may call one or more functions to assist with the user query.\n\nYou are provided with function signatures within <tools></tools> XML tags:\n<tools>"

TOOLS_OUTRO ==
    "</tools>\n\nFor each function call, return a json object with function name and arguments within <tool_call></tool_call> XML tags:\n<tool_call>\n{\"name\": <function-name>, \"arguments\": <args-json-object>}\n</tool_call>"

NAME_OPEN == "{\"name\": \""
ARGUMENTS_OPEN == "\", \"arguments\": "

\* {%- for tool in tools %} "\n", tool | tojson {%- endfor %}
RECURSIVE ToolLines(_)
ToolLines(ts) ==
    IF ts = <<>> THEN <<>> ELSE <<NL>> \o ToJson(Head(ts), FALSE) \o ToolLines(Tail(ts))

\* ----------------------------------------------------------- QWEN2_5_TEMPLATE

\* The system block that opens the output.
Header25(t, msgs, tl) ==
    IF tl # <<>>
    THEN <<Emit(<<IM_START, "system", NL>>),
           Emit(IF msgs[1].role = "system" THEN msgs[1].content ELSE <<DefaultPrompt(t)>>),
           Emit(<<NL, NL, TOOLS_INTRO>>),
           Emit(ToolLines(tl)),
           Emit(<<NL, TOOLS_OUTRO, IM_END, NL>>)>>
    ELSE IF msgs[1].role = "system"
         THEN <<Emit(<<IM_START, "system", NL>> \o msgs[1].content \o <<IM_END, NL>>)>>
         ELSE <<Emit(<<IM_START, "system", NL, DefaultPrompt(t), IM_END, NL>>)>>

\* Mutant: a system turn takes the first branch wherever it stands.
PlainBranch25SystemAlways(msgs, i) ==
    \/ msgs[i + 1].role = "user"
    \/ msgs[i + 1].role = "system"
    \/ (msgs[i + 1].role = "assistant" /\ ~Truthy(msgs[i + 1].tool_calls))

\* The first test of the message loop: a user turn, a system turn that is not
\* the first message, or an assistant turn without tool calls.
PlainBranch25(msgs, i) ==
    \/ msgs[i + 1].role = "user"
    \/ (msgs[i + 1].role = "system" /\ i # 0)
    \/ (msgs[i + 1].role = "assistant" /\ ~Truthy(msgs[i + 1].tool_calls))

\* One {% generation %} block per tool call of an assistant turn.
RECURSIVE ToolCallOps25(_)
ToolCallOps25(tcs) ==
    IF tcs = <<>>
    THEN <<>>
    ELSE <<Generation,
           Emit(<<NL, TOOL_CALL, NL, NAME_OPEN>>),
           Emit(Head(tcs).name),
           Emit(<<ARGUMENTS_OPEN>>),
           Emit(ToJson(Head(tcs).arguments, Head(tcs).is_string)),
           Emit(<<"}", NL, END_TOOL_CALL>>),
           EndGeneration>> \o ToolCallOps25(Tail(tcs))

\* Mutant: the generation block opened before the role header.
AssistantOps25HeaderInside(m) ==
    <<Generation,
      Emit(<<IM_START, m.role, NL>>),
      Emit(m.content \o <<IM_END, NL>>),
      EndGeneration>>

\* An assistant turn without tool calls.
AssistantOps25(m) ==
    <<Emit(<<IM_START, m.role, NL>>),
      Generation,
      Emit(m.content \o <<IM_END, NL>>),
      EndGeneration>>

\* Mutant: the content's generation block is never closed.
AssistantToolCallOps25Unclosed(m) ==
    <<Emit(<<IM_START, m.role>>)>>
    \o (IF m.content # <<>> THEN <<Generation, Emit(<<NL>> \o m.content)>> ELSE <<>>)
    \o ToolCallOps25(m.tool_calls.val)
    \o <<Generation, Emit(<<IM_END, NL>>), EndGeneration>>

\* An assistant turn with tool calls.
AssistantToolCallOps25(m) ==
    <<Emit(<<IM_START, m.role>>)>>
    \o (IF m.content # <<>>
        THEN <<Generation, Emit(<<NL>> \o m.content), EndGeneration>>
        ELSE <<>>)
    \o ToolCallOps25(m.tool_calls.val)
    \o <<Generation, Emit(<<IM_END, NL>>), EndGeneration>>

\* Mutant: every tool message gets a wrapper of its own.
ToolOpsUnbatched(msgs, i) ==
    <<Emit(<<IM_START, "user">>),
      Emit(<<NL, TOOL_RESPONSE, NL>>),
      Emit(msgs[i + 1].content),
      Emit(<<NL, END_TOOL_RESPONSE>>),
      Emit(<<IM_END, NL>>)>>

\* A tool turn: the wrapper opens before the first tool message of a run and
\* closes after its last one.
ToolOps(msgs, i) ==
    (IF i = 0 \/ msgs[i].role # "tool" THEN <<Emit(<<IM_START, "user">>)>> ELSE <<>>)
    \o <<Emit(<<NL, TOOL_RESPONSE, NL>>),
         Emit(msgs[i + 1].content),
         Emit(<<NL, END_TOOL_RESPONSE>>)>>
    \o (IF i = Len(msgs) - 1 \/ msgs[i + 2].role # "tool"
        THEN <<Emit(<<IM_END, NL>>)>>
        ELSE <<>>)

\* Mutant: both neighbours looked up whatever the position.
NeighbourLookupsUnguarded(msgs, i) == {i - 1, i + 1}

\* The indices the tool branch reads at loop.index0 = i: messages[loop.index0 - 1]
\* unless the message is the first, messages[loop.index0 + 1] unless it is the last.
NeighbourLookups(msgs, i) ==
    (IF i = 0 THEN {} ELSE {i - 1}) \cup (IF i = Len(msgs) - 1 THEN {} ELSE {i + 1})

\* messages[j] is an element of the list (a negative index counts from the end);
\* otherwise it is undefined and reading its role fails.
Defined(msgs, j) == 0 - Len(msgs) <= j /\ j <= Len(msgs) - 1

\* A user turn, or a system turn after the first message.
TurnOps(m) == <<Emit(<<IM_START, m.role, NL>> \o m.content \o <<IM_END, NL>>)>>

\* The body of {%- for message in messages %}, for the message at loop.index0 = i.
Body25(msgs, i) ==
    LET message == msgs[i + 1]
    IN  IF PlainBranch25(msgs, i)
        THEN IF message.role = "assistant"
             THEN AssistantOps25(message)
             ELSE TurnOps(message)
        ELSE IF message.role = "assistant"
             THEN AssistantToolCallOps25(message)
             ELSE IF message.role = "tool"
                  THEN ToolOps(msgs, i)
                  ELSE <<>>

\* ------------------------------------------------------------- QWEN3_TEMPLATE

\* The system block; without tools and without a leading system message, nothing.
Header3(msgs, tl) ==
    IF tl # <<>>
    THEN <<Emit(<<IM_START, "system", NL>>),
           Emit(IF msgs[1].role = "system" THEN msgs[1].content \o <<NL, NL>> ELSE <<>>),
           Emit(<<TOOLS_INTRO>>),
           Emit(ToolLines(tl)),
           Emit(<<NL, TOOLS_OUTRO, IM_END, NL>>)>>
    ELSE IF msgs[1].role = "system"
         THEN <<Emit(<<IM_START, "system", NL>> \o msgs[1].content \o <<IM_END, NL>>)>>
         ELSE <<>>

\* namespace(multi_step_tool=true, last_query_index=messages|length - 1)
Namespace(msgs) == [multi_step_tool |-> TRUE, last_query_index |-> Len(msgs) - 1]

\* The message the reverse loop visits at loop.index0 = r: messages[::-1][r].
ScanMessage(msgs, r) == Reverse(msgs)[r + 1]

\* Mutant: loop.index0 itself taken for the message's position.
ScanIndexForward(msgs, r) == r

\* {%- set index = (messages|length - 1) - loop.index0 %}
ScanIndex(msgs, r) == (Len(msgs) - 1) - r

\* Mutant: the test no longer looks at multi_step_tool.
IsQueryUnguarded(n, message) ==
    /\ message.role = "user"
    /\ ~(StartsWith(message.content, TOOL_RESPONSE)
         /\ EndsWith(message.content, END_TOOL_RESPONSE))

\* A user turn whose content is not a wrapped tool response, seen while
\* multi_step_tool is still set.
IsQuery(n, message) ==
    /\ n.multi_step_tool
    /\ message.role = "user"
    /\ ~(StartsWith(message.content, TOOL_RESPONSE)
         /\ EndsWith(message.content, END_TOOL_RESPONSE))

\* One iteration of the reverse loop on the namespace.
ScanNamespace(n, msgs, r) ==
    IF IsQuery(n, ScanMessage(msgs, r))
    THEN [multi_step_tool |-> FALSE, last_query_index |-> ScanIndex(msgs, r)]
    ELSE n

\* reasoning_content is defined and is not none
HasReasoning(m) == m.reasoning_content.kind = "value"

\* Mutant: one leading newline removed instead of all of them.
Content3OneNewline(m) ==
    IF HasReasoning(m)
    THEN m.content
    ELSE IF Contains(m.content, END_THINK)
         THEN LET after == Last(Split(m.content, END_THINK))
              IN  IF StartsWith(after, NL) THEN Tail(after) ELSE after
         ELSE m.content

\* The template's "content" of an assistant turn.
Content3(m) ==
    IF HasReasoning(m)
    THEN m.content
    ELSE IF Contains(m.content, END_THINK)
         THEN LStrip(Last(Split(m.content, END_THINK)), NL)
         ELSE m.content

\* The template's "reasoning_content" of an assistant turn.
Reasoning3(m) ==
    IF HasReasoning(m)
    THEN m.reasoning_content.val
    ELSE IF Contains(m.content, END_THINK)
         THEN LStrip(Last(Split(RStrip(Split(m.content, END_THINK)[1], NL), THINK)), NL)
         ELSE <<>>

\* Mutant: loop.index0 >= ns.last_query_index.
EmitsThinkAtOrAfter(msgs, i, lastQuery, reasoning) ==
    /\ i >= lastQuery
    /\ (i = Len(msgs) - 1 \/ (i # Len(msgs) - 1 /\ reasoning # <<>>))

\* Whether the turn at loop.index0 = i is rendered with its think block.
EmitsThink(msgs, i, lastQuery, reasoning) ==
    /\ i > lastQuery
    /\ (i = Len(msgs) - 1 \/ (i # Len(msgs) - 1 /\ reasoning # <<>>))

\* The role header and the content of an assistant turn.
AssistantHead3(msgs, i, lastQuery) ==
    LET message == msgs[i + 1]
        c == Content3(message)
        rc == Reasoning3(message)
    IN  IF EmitsThink(msgs, i, lastQuery, rc)
        THEN Emit(<<IM_START, message.role, NL, THINK, NL>> \o Strip(rc, NL)
                  \o <<NL, END_THINK, NL, NL>> \o LStrip(c, NL))
        ELSE Emit(<<IM_START, message.role, NL>> \o c)

\* The tool calls of an assistant turn; k counts them from 0 (loop.first is k = 0).
RECURSIVE ToolCallOps3(_, _, _)
ToolCallOps3(tcs, k, c) ==
    IF tcs = <<>>
    THEN <<>>
    ELSE <<Emit(IF (k = 0 /\ c # <<>>) \/ k # 0 THEN <<NL>> ELSE <<>>),
           Emit(<<TOOL_CALL, NL, NAME_OPEN>>),
           Emit(Head(tcs).name),
           Emit(<<ARGUMENTS_OPEN>>),
           Emit(IF Head(tcs).is_string
                THEN Head(tcs).arguments
                ELSE ToJson(Head(tcs).arguments, FALSE)),
           Emit(<<"}", NL, END_TOOL_CALL>>)>> \o ToolCallOps3(Tail(tcs), k + 1, c)

\* An assistant turn: one generation block around the whole turn.
AssistantOps3(msgs, i, lastQuery) ==
    <<Generation, AssistantHead3(msgs, i, lastQuery)>>
    \o (IF Truthy(msgs[i + 1].tool_calls)
        THEN ToolCallOps3(msgs[i + 1].tool_calls.val, 0, Content3(msgs[i + 1]))
        ELSE <<>>)
    \o <<Emit(<<IM_END, NL>>), EndGeneration>>

PlainBranch3(msgs, i) ==
    \/ msgs[i + 1].role = "user"
    \/ (msgs[i + 1].role = "system" /\ i # 0)

\* The body of the second {%- for message in messages %}.
Body3(msgs, i, lastQuery) ==
    LET message == msgs[i + 1]
    IN  IF PlainBranch3(msgs, i)
        THEN TurnOps(message)
        ELSE IF message.role = "assistant"
             THEN AssistantOps3(msgs, i, lastQuery)
             ELSE IF message.role = "tool"
                  THEN ToolOps(msgs, i)
                  ELSE <<>>

\* ------------------------------------------------------- generation prompt

\* Mutant: the generation prompt emitted inside a generation block.
PromptOpsGenerated(t, agp, et) ==
    IF agp
    THEN <<Generation, Emit(<<IM_START, "assistant", NL>>), EndGeneration>>
    ELSE <<>>

\* Mutant: the empty think block emitted unless enable_thinking is true.
PromptOpsUnlessTrue(t, agp, et) ==
    IF agp
    THEN <<Emit(<<IM_START, "assistant", NL>>)>>
         \o (IF t = "qwen3" /\ et # "true"
             THEN <<Emit(<<THINK, NL, NL, END_THINK, NL, NL>>)>>
             ELSE <<>>)
    ELSE <<>>

\* {%- if add_generation_prompt %} ... {%- endif %}
PromptOps(t, agp, et) ==
    IF agp
    THEN <<Emit(<<IM_START, "assistant", NL>>)>>
         \o (IF t = "qwen3" /\ et = "false"
             THEN <<Emit(<<THINK, NL, NL, END_THINK, NL, NL>>)>>
             ELSE <<>>)
    ELSE <<>>

\* --------------------------------------------------- declarative templates

PLACEHOLDER == "{{content}}"

\* The formatters each template is constructed with; Undefined where the
\* constructor is given none.
user_formatter(t) == Value(<<IM_START, "user", NL, PLACEHOLDER, IM_END, NL>>)

assistant_formatter(t) == Value(<<IM_START, "assistant", NL, PLACEHOLDER, IM_END, NL>>)

system_formatter(t) ==
    IF t = "yi1_5"
    THEN Value(<<PLACEHOLDER>>)
    ELSE Value(<<IM_START, "system", NL, PLACEHOLDER, IM_END, NL>>)

function_formatter(t) ==
    IF t = "qwen2_for_tool"
    THEN Value(<<IM_START, "assistant", NL, PLACEHOLDER, IM_END, NL>>)
    ELSE Undefined

\* Mutant: no template is given an observation_formatter.
observation_formatterMissing(t) == Undefined

observation_formatter(t) ==
    IF t = "qwen2_for_tool"
    THEN Value(<<IM_START, "tool", NL, PLACEHOLDER, IM_END, NL>>)
    ELSE Undefined

\* Mutant: yi1_5 given the separator of the qwen2 templates.
separatorEverywhere(t) == Value(<<NL>>)

separator(t) == IF t = "yi1_5" THEN Undefined ELSE Value(<<NL>>)

\* StringFormatter.format: the components in order, the placeholder replaced
\* by the content.
RECURSIVE Format(_, _)
Format(f, c) ==
    IF f = <<>>
    THEN <<>>
    ELSE (IF Head(f) = PLACEHOLDER THEN c ELSE <<Head(f)>>) \o Format(Tail(f), c)

\* The text of the tool calls of a function-call turn.
RECURSIVE FunctionContent(_)
FunctionContent(tcs) ==
    IF tcs = <<>>
    THEN <<>>
    ELSE <<NAME_OPEN>> \o Head(tcs).name \o <<ARGUMENTS_OPEN>>
         \o ToJson(Head(tcs).arguments, Head(tcs).is_string) \o <<"}">>
         \o FunctionContent(Tail(tcs))

\* A turn that carries tool calls instead of content, in a template that can
\* render one.
IsFunctionCall(t, m) ==
    m.role = "assistant" /\ Truthy(m.tool_calls) /\ function_formatter(t).kind = "value"

\* The formatter a message is dispatched to; Undefined when there is none.
FormatterFor(t, m) ==
    CASE m.role = "system" -> system_formatter(t)
      [] m.role = "user" -> user_formatter(t)
      [] m.role = "assistant" ->
            IF IsFunctionCall(t, m) THEN function_formatter(t) ELSE assistant_formatter(t)
      [] m.role = "tool" -> observation_formatter(t)
      [] OTHER -> Undefined

\* The rendering of one message by its formatter.
Formatted(t, m) ==
    Format(FormatterFor(t, m).val,
           IF IsFunctionCall(t, m) THEN FunctionContent(m.tool_calls.val) ELSE m.content)

\* The separator that precedes the message at position i (from 0): none before
\* the first message.
SeparatorBefore(t, i) ==
    IF i > 0 /\ separator(t).kind = "value" THEN separator(t).val ELSE <<>>

\* ------------------------------------------------------------------ actions

Body(msgs, i) ==
    IF template = "qwen3" THEN Body3(msgs, i, ns.last_query_index) ELSE Body25(msgs, i)

\* A template evaluation error ends the render: nothing is returned.
Fail(e) ==
    /\ pc' = "error"
    /\ err' = e
    /\ out' = <<>>
    /\ spans' = <<>>
    /\ genStack' = <<>>
    /\ UNCHANGED <<template, messages, tools, add_generation_prompt, enable_thinking,
                   index0, rindex0, ns, content, reasoning_content, maxOpen, seg,
                   visited>>
    /\ UNCHANGED <<encoderVars, finetunerVars>>

\* messages[0] of an empty list is undefined, and reading its role fails.
RenderEmpty ==
    /\ pc = "idle"
    /\ template \in JinjaTemplates
    /\ ~Defined(messages, 0)
    /\ Fail("UndefinedError")

RenderHeader25 ==
    /\ pc = "idle"
    /\ template \in JinjaTemplates25
    /\ Defined(messages, 0)
    /\ \E tl \in ToolLists :
          /\ tools' = tl
          /\ Render(Header25(template, messages, tl))
    /\ pc' = "loop"
    /\ UNCHANGED <<template, messages, add_generation_prompt, enable_thinking, index0,
                   rindex0, ns, content, reasoning_content, seg, visited, err>>
    /\ UNCHANGED <<encoderVars, finetunerVars>>

RenderHeader3 ==
    /\ pc = "idle"
    /\ template = "qwen3"
    /\ Defined(messages, 0)
    /\ \E tl \in ToolLists :
          /\ tools' = tl
          /\ Render(Header3(messages, tl))
    /\ ns' = Namespace(messages)
    /\ pc' = "scan"
    /\ UNCHANGED <<template, messages, add_generation_prompt, enable_thinking, index0,
                   rindex0, content, reasoning_content, seg, visited, err>>
    /\ UNCHANGED <<encoderVars, finetunerVars>>

\* One iteration of {%- for message in messages[::-1] %}.
Scan ==
    /\ pc = "scan"
    /\ rindex0 < Len(messages)
    /\ ns' = ScanNamespace(ns, messages, rindex0)
    /\ visited' = Append(visited, <<ScanIndex(messages, rindex0), ScanMessage(messages, rindex0)>>)
    /\ rindex0' = rindex0 + 1
    /\ pc' = IF rindex0 + 1 = Len(messages) THEN "loop" ELSE "scan"
    /\ UNCHANGED <<template, messages, tools, add_generation_prompt, enable_thinking,
                   index0, content, reasoning_content, out, spans, genStack, maxOpen,
                   seg, err>>
    /\ UNCHANGED <<encoderVars, finetunerVars>>

\* One iteration of the message loop.
LoopStep ==
    /\ pc = "loop"
    /\ template \in JinjaTemplates
    /\ index0 < Len(messages)
    /\ Render(Body(messages, index0))
    /\ seg' = Append(seg, <<Len(out), Len(out')>>)
    /\ index0' = index0 + 1
    /\ pc' = IF index0 + 1 = Len(messages) THEN "prompt" ELSE "loop"
    /\ UNCHANGED <<template, messages, tools, add_generation_prompt, enable_thinking,
                   rindex0, ns, visited, err>>
    /\ UNCHANGED <<encoderVars, finetunerVars>>

Message == messages[index0 + 1]

\* A user turn, or a system turn after the first message.
RenderTurn ==
    /\ pc = "loop"
    /\ template \in JinjaTemplates
    /\ Message.role \in {"user", "system"}
    /\ ~(Message.role = "system" /\ index0 = 0)
    /\ LoopStep
    /\ UNCHANGED <<content, reasoning_content>>

\* The leading system message: the header has rendered it, the loop emits nothing.
RenderNothing ==
    /\ pc = "loop"
    /\ template \in JinjaTemplates
    /\ Message.role = "system"
    /\ index0 = 0
    /\ LoopStep
    /\ UNCHANGED <<content, reasoning_content>>

\* A message no branch of the if / elif chain matches: the loop emits nothing.
RenderOther ==
    /\ pc = "loop"
    /\ template \in JinjaTemplates
    /\ Message.role \notin {"system", "user", "assistant", "tool"}
    /\ LoopStep
    /\ UNCHANGED <<content, reasoning_content>>

RenderAssistant25 ==
    /\ pc = "loop"
    /\ template \in JinjaTemplates25
    /\ Message.role = "assistant"
    /\ ~Truthy(Message.tool_calls)
    /\ LoopStep
    /\ UNCHANGED <<content, reasoning_content>>

RenderAssistantToolCalls25 ==
    /\ pc = "loop"
    /\ template \in JinjaTemplates25
    /\ Message.role = "assistant"
    /\ Truthy(Message.tool_calls)
    /\ LoopStep
    /\ UNCHANGED <<content, reasoning_content>>

RenderAssistant3 ==
    /\ pc = "loop"
    /\ template = "qwen3"
    /\ Message.role = "assistant"
    /\ LoopStep
    /\ content' = Content3(Message)
    /\ reasoning_content' = Reasoning3(Message)

RenderTool ==
    /\ pc = "loop"
    /\ template \in JinjaTemplates
    /\ Message.role = "tool"
    /\ IF \A j \in NeighbourLookups(messages, index0) : Defined(messages, j)
       THEN LoopStep /\ UNCHANGED <<content, reasoning_content>>
       ELSE Fail("UndefinedError")

\* {%- if add_generation_prompt %} ... {%- endif %}, and the end of the render.
GenerationPrompt ==
    /\ pc = "prompt"
    /\ template \in JinjaTemplates
    /\ \E agp \in BOOLEAN :
       \E et \in (IF template = "qwen3" THEN {"undefined", "true", "false"} ELSE {"undefined"}) :
          /\ add_generation_prompt' = agp
          /\ enable_thinking' = et
          /\ Render(PromptOps(template, agp, et))
    /\ pc' = "done"
    /\ UNCHANGED <<template, messages, tools, index0, rindex0, ns, content,
                   reasoning_content, seg, visited, err>>
    /\ UNCHANGED <<encoderVars, finetunerVars>>

\* ConversationTemplate.render, one message at a time.
DeclRender ==
    /\ pc \in {"idle", "loop"}
    /\ template \in DeclarativeTemplates
    /\ index0 < Len(messages)
    /\ FormatterFor(template, Message).kind = "value"
    /\ out' = out \o SeparatorBefore(template, index0) \o Formatted(template, Message)
    /\ seg' = Append(seg, <<Len(out) + Len(SeparatorBefore(template, index0)), Len(out')>>)
    /\ index0' = index0 + 1
    /\ pc' = IF index0 + 1 = Len(messages) THEN "done" ELSE "loop"
    /\ UNCHANGED <<template, messages, tools, add_generation_prompt, enable_thinking,
                   rindex0, ns, content, reasoning_content, spans, genStack, maxOpen,
                   visited, err>>
    /\ UNCHANGED <<encoderVars, finetunerVars>>

\* A message whose role has no formatter.
DeclUnsupportedRole ==
    /\ pc \in {"idle", "loop"}
    /\ template \in DeclarativeTemplates
    /\ index0 < Len(messages)
    /\ FormatterFor(template, Message).kind # "value"
    /\ Fail("UnsupportedRole")

\* An empty conversation renders to the empty string.
DeclRenderEmpty ==
    /\ pc = "idle"
    /\ template \in DeclarativeTemplates
    /\ messages = <<>>
    /\ pc' = "done"
    /\ UNCHANGED <<template, messages, tools, add_generation_prompt, enable_thinking,
                   index0, rindex0, ns, content, reasoning_content, out, spans,
                   genStack, maxOpen, seg, visited, err>>
    /\ UNCHANGED <<encoderVars, finetunerVars>>

Next ==
    \/ DeclRender
    \/ DeclUnsupportedRole
    \/ DeclRenderEmpty
    \/ RenderEmpty
    \/ RenderHeader25
    \/ RenderHeader3
    \/ Scan
    \/ RenderTurn
    \/ RenderNothing
    \/ RenderOther
    \/ RenderAssistant25
    \/ RenderAssistantToolCalls25
    \/ RenderAssistant3
    \/ RenderTool
    \/ GenerationPrompt

Spec == Init /\ [][Next]_vars

\* ---------------------------------------------------------------- properties

Jinja == template \in JinjaTemplates

\* The text the loop emitted for the k-th message (k from 1).
Text(k) == SubSeq(out, seg[k][1] + 1, seg[k][2])

\* The text a span covers.
Covered(sp) == SubSeq(out, sp[1] + 1, sp[2])

Count(s, tok) == Cardinality({k \in 1..Len(s) : s[k] = tok})

IsPrefix(p, s) == Len(p) <= Len(s) /\ SubSeq(s, 1, Len(p)) = p

IsSuffix(p, s) == Len(p) <= Len(s) /\ SubSeq(s, Len(s) - Len(p) + 1, Len(s)) = p

RolesOf(msgs) == [k \in 1..Len(msgs) |-> msgs[k].role]

\* The k-th message starts, ends, a maximal run of consecutive tool messages.
RunStart(k) ==
    messages[k].role = "tool" /\ (k = 1 \/ messages[k - 1].role # "tool")

RunEnd(k) ==
    messages[k].role = "tool" /\ (k = Len(messages) \/ messages[k + 1].role # "tool")

ToolResponse(k) == <<NL, TOOL_RESPONSE, NL>> \o messages[k].content \o <<NL, END_TOOL_RESPONSE>>

\* C1: in the Jinja templates, a tool message opens the synthetic
\* "<|im_start|>user" wrapper exactly when it starts a maximal run of tool
\* messages and closes it with one "<|im_end|>\n" exactly when it ends the run;
\* every tool message is one <tool_response> block; so there are as many
\* wrappers, and as many closings, as runs.
ToolBatching ==
    Jinja =>
        /\ \A k \in 1..Len(seg) :
              messages[k].role = "tool" =>
                  /\ Text(k) = (IF RunStart(k) THEN <<IM_START, "user">> ELSE <<>>)
                               \o ToolResponse(k)
                               \o (IF RunEnd(k) THEN <<IM_END, NL>> ELSE <<>>)
                  /\ Count(Text(k), IM_START) = (IF RunStart(k) THEN 1 ELSE 0)
                  /\ Count(Text(k), IM_END) = (IF RunEnd(k) THEN 1 ELSE 0)
        /\ pc \in {"prompt", "done"} =>
              LET tool == {k \in 1..Len(messages) : messages[k].role = "tool"}
                  runs == Cardinality({k \in tool : RunStart(k)})
              IN  /\ Cardinality({k \in tool : IsPrefix(<<IM_START, "user">>, Text(k))}) = runs
                  /\ Cardinality({k \in tool : IsSuffix(<<IM_END, NL>>, Text(k))}) = runs

\* [tool(A), tool(B), user(C)] rendered: one wrapper around both tool messages.
ToolBatchingWitness ==
    /\ template = "qwen2_5"
    /\ pc = "done"
    /\ RolesOf(messages) = <<"tool", "tool", "user">>
    /\ Text(1) \o Text(2) =
          <<IM_START, "user">> \o ToolResponse(1) \o ToolResponse(2) \o <<IM_END, NL>>

\* The spans of `sps` from the k-th on and the gaps between them, laid end to
\* end from offset `from`.
RECURSIVE Reassemble(_, _, _)
Reassemble(sps, k, from) ==
    IF k > Len(sps)
    THEN SubSeq(out, from + 1, Len(out))
    ELSE SubSeq(out, from + 1, sps[k][1]) \o Covered(sps[k])
         \o Reassemble(sps, k + 1, sps[k][2])

\* C2: in the Jinja templates the generation spans are half-open ranges inside
\* the output, ordered and pairwise disjoint, no generation block opens while
\* another is open, and the gaps and the spans laid end to end are the output.
SpansWellFormed ==
    Jinja =>
        /\ \A k \in 1..Len(spans) :
              0 <= spans[k][1] /\ spans[k][1] <= spans[k][2] /\ spans[k][2] <= Len(out)
        /\ \A k \in 1..Len(spans) : \A l \in 1..Len(spans) :
              k < l => spans[k][2] <= spans[l][1]
        /\ maxOpen <= 1
        /\ genStack = <<>>
        /\ Reassemble(spans, 1, 0) = out

\* An assistant turn with content and a tool call after a plain assistant turn:
\* four spans.
SpansWellFormedWitness ==
    /\ Jinja
    /\ pc = "done"
    /\ Len(spans) >= 4
    /\ spans[1][2] < spans[2][1]
    /\ add_generation_prompt

\* C3: a conversation without an assistant message has no generation span, in
\* every Jinja template, with and without the generation prompt.
NoAssistantNoSpans ==
    (Jinja /\ \A k \in 1..Len(messages) : messages[k].role # "assistant") => spans = <<>>

NoAssistantNoSpansWitness ==
    /\ Jinja
    /\ pc = "done"
    /\ add_generation_prompt
    /\ RolesOf(messages) = <<"system", "user", "tool">>
    /\ IsSuffix(<<IM_START, "assistant", NL>>, out)
    /\ spans = <<>>

\* The spans recorded inside the text of the k-th message.
SpansOf(k) ==
    {j \in 1..Len(spans) : seg[k][1] <= spans[j][1] /\ spans[j][2] <= seg[k][2]}

\* C4: in the QWEN2_5 family an assistant message without tool calls has
\* exactly one generation span, and the span covers its content followed by
\* "<|im_end|>\n", no more and no less.
PlainAssistantSpan ==
    template \in JinjaTemplates25 =>
        \A k \in 1..Len(seg) :
            (messages[k].role = "assistant" /\ ~Truthy(messages[k].tool_calls)) =>
                /\ Cardinality(SpansOf(k)) = 1
                /\ \A j \in SpansOf(k) :
                      /\ Covered(spans[j]) = messages[k].content \o <<IM_END, NL>>
                      /\ spans[j][2] = seg[k][2]
                      /\ SubSeq(out, seg[k][1] + 1, spans[j][1]) = <<IM_START, "assistant", NL>>

PlainAssistantSpanWitness ==
    /\ template \in JinjaTemplates25
    /\ pc = "done"
    /\ RolesOf(messages) = <<"user", "assistant">>
    /\ ~Truthy(messages[2].tool_calls)
    /\ Len(spans) = 1
    /\ Covered(spans[1]) = <<"c", IM_END, NL>>

Positions(s, tok) == {k \in 1..Len(s) : s[k] = tok}

MaxOf(S) == CHOOSE x \in S : \A y \in S : y <= x

MinOf(S) == CHOOSE x \in S : \A y \in S : x <= y

\* The text of c after its last "</think>", from the first token that is not a
\* newline.
AfterLastMarker(c) ==
    LET p == MaxOf(Positions(c, END_THINK))
        q == MinOf({k \in (p + 1)..(Len(c) + 1) : k = Len(c) + 1 \/ c[k] # NL})
    IN  SubSeq(c, q, Len(c))

\* The text of c before its first "</think>": up to the last token that is not
\* a newline, from the first token after the last "<think>" in it that is not
\* a newline.
BeforeFirstMarker(c) ==
    LET f == MinOf(Positions(c, END_THINK))
        b == MaxOf({k \in 0..(f - 1) : k = 0 \/ c[k] # NL})
        t == MaxOf({k \in 0..b : k = 0 \/ c[k] = THINK})
        a == MinOf({k \in (t + 1)..(b + 1) : k = b + 1 \/ c[k] # NL})
    IN  SubSeq(c, a, b)

\* QWEN3_TEMPLATE has just rendered an assistant message: messages[index0].
AssistantRendered ==
    /\ template = "qwen3"
    /\ pc \in {"loop", "prompt", "done"}
    /\ index0 >= 1
    /\ messages[index0].role = "assistant"

\* C5 (as amended): in QWEN3_TEMPLATE an explicit reasoning_content (defined,
\* not null) is the reasoning content and the content is left whole; otherwise,
\* with a "</think>" in the content, the visible content is the text after the
\* last marker without its leading newlines, and the reasoning content is the
\* text before the first marker, after the last "<think>" in it, without the
\* newlines at either end (spaces stay); with no marker the reasoning content is
\* empty and the visible content is the whole text.
ThinkSplit ==
    AssistantRendered =>
        LET m == messages[index0]
        IN  IF m.reasoning_content.kind = "value"
            THEN reasoning_content = m.reasoning_content.val /\ content = m.content
            ELSE IF Positions(m.content, END_THINK) = {}
                 THEN reasoning_content = <<>> /\ content = m.content
                 ELSE /\ content = AfterLastMarker(m.content)
                      /\ reasoning_content = BeforeFirstMarker(m.content)

\* Two newlines after the marker: both are dropped.
ThinkSplitWitness ==
    /\ AssistantRendered
    /\ pc = "done"
    /\ messages[index0].reasoning_content.kind = "undefined"
    /\ messages[index0].content = <<END_THINK, NL, NL, "a">>
    /\ content = <<"a">>
    /\ reasoning_content = <<>>

DropOneNewline(s) == IF Len(s) > 0 /\ Head(s) = NL THEN Tail(s) ELSE s

\* C5 as stated: without an explicit reasoning_content and with a "</think>"
\* in the content, the visible content is the text after the marker (any of
\* them, when there are several) less one leading newline.
ThinkSplitOneNewline ==
    (/\ AssistantRendered
     /\ messages[index0].reasoning_content.kind # "value"
     /\ Positions(messages[index0].content, END_THINK) # {}) =>
        \E p \in Positions(messages[index0].content, END_THINK) :
            content = DropOneNewline(SubSeq(messages[index0].content, p + 1,
                                            Len(messages[index0].content)))

\* A user turn whose content is a wrapped tool response.
IsEcho(m) ==
    /\ Len(m.content) > 0
    /\ m.content[1] = TOOL_RESPONSE
    /\ m.content[Len(m.content)] = END_TOOL_RESPONSE

\* The positions (from 0) of the true user queries.
TrueQueries(msgs) ==
    {k \in 0..(Len(msgs) - 1) : msgs[k + 1].role = "user" /\ ~IsEcho(msgs[k + 1])}

\* The greatest of them, or the last position when there is none.
LastTrueQuery(msgs) ==
    IF TrueQueries(msgs) = {} THEN Len(msgs) - 1 ELSE MaxOf(TrueQueries(msgs))

\* The opening of an assistant turn with, and without, its think block.
WithThink(k) ==
    <<IM_START, "assistant", NL, THINK, NL>> \o Strip(Reasoning3(messages[k]), NL)
    \o <<NL, END_THINK, NL, NL>> \o LStrip(Content3(messages[k]), NL)

WithoutThink(k) == <<IM_START, "assistant", NL>> \o Content3(messages[k])

HasThinkBlock(k) == IsPrefix(WithThink(k), Text(k))

\* C6 (as amended): in QWEN3_TEMPLATE an assistant message is rendered with its
\* think block exactly when its index is greater than the last true user query
\* index (loop.index0 > ns.last_query_index) and it is the last message of the
\* conversation or has non-empty reasoning content; every other assistant turn
\* is the role header followed by the visible content, with no think block.
ThinkBlockRule ==
    template = "qwen3" =>
        \A k \in 1..Len(seg) :
            messages[k].role = "assistant" =>
                IF /\ k - 1 > LastTrueQuery(messages)
                   /\ (k = Len(messages) \/ Reasoning3(messages[k]) # <<>>)
                THEN HasThinkBlock(k)
                ELSE /\ IsPrefix(WithoutThink(k), Text(k))
                     /\ ~HasThinkBlock(k)
                     /\ Count(Text(k), THINK) = Count(Content3(messages[k]), THINK)

\* No true user query, the last message an assistant turn: no think block.
ThinkBlockRuleWitness ==
    /\ template = "qwen3"
    /\ pc = "done"
    /\ RolesOf(messages) = <<"system", "assistant">>
    /\ TrueQueries(messages) = {}
    /\ LastTrueQuery(messages) = 1
    /\ ~HasThinkBlock(2)
    /\ IsPrefix(WithoutThink(2), Text(2))

\* C6 as stated: the think block is re-emitted if and only if the index is at
\* or after the last true user query index and the message is the last one or
\* has non-empty reasoning content.
ThinkBlockAtOrAfter ==
    template = "qwen3" =>
        \A k \in 1..Len(seg) :
            messages[k].role = "assistant" =>
                (HasThinkBlock(k) <=>
                    /\ k - 1 >= LastTrueQuery(messages)
                    /\ (k = Len(messages) \/ Reasoning3(messages[k]) # <<>>))

ScanDone == template = "qwen3" /\ pc \in {"loop", "prompt", "done"}

\* C7: after the reverse scan of QWEN3_TEMPLATE, ns.last_query_index is the
\* greatest index of a user message that is not a wrapped tool response, and
\* len(messages) - 1 when there is none; once multi_step_tool is false no
\* iteration changes the namespace, and what the scan wrote stays through the
\* message loop.
LastQueryIndex ==
    /\ [](ScanDone =>
            /\ ns.last_query_index = LastTrueQuery(messages)
            /\ ns.multi_step_tool = (TrueQueries(messages) = {}))
    /\ [][(template = "qwen3" /\ pc = "scan" /\ ~ns.multi_step_tool) => ns' = ns]_vars
    /\ [][ScanDone => ns' = ns]_vars

\* Two queries, then a user message that is a tool-response echo: the echo is
\* skipped and the scan settles on the second query (index 1).
LastQueryIndexWitness ==
    /\ template = "qwen3"
    /\ pc = "done"
    /\ RolesOf(messages) = <<"user", "user", "user">>
    /\ ~IsEcho(messages[1]) /\ ~IsEcho(messages[2]) /\ IsEcho(messages[3])
    /\ ns = [multi_step_tool |-> FALSE, last_query_index |-> 1]

\* C8 (as amended): the reverse loop of QWEN3_TEMPLATE visits the messages from
\* the last to the first, so [user, assistant, user] is visited as user (index
\* 2), assistant (index 1), user (index 0), and in every iteration
\* (len(messages) - 1) - loop.index0 is the visited message's position.
ReverseVisit ==
    template = "qwen3" =>
        /\ \A k \in 1..Len(visited) :
              /\ visited[k][1] = Len(messages) - k
              /\ visited[k][2] = messages[visited[k][1] + 1]
        /\ (RolesOf(messages) = <<"user", "assistant", "user">> /\ Len(visited) = 3) =>
              /\ <<visited[1][2].role, visited[2][2].role, visited[3][2].role>>
                    = <<"user", "assistant", "user">>
              /\ <<visited[1][1], visited[2][1], visited[3][1]>> = <<2, 1, 0>>

ReverseVisitWitness ==
    /\ template = "qwen3"
    /\ pc = "loop"
    /\ RolesOf(messages) = <<"user", "assistant", "user">>
    /\ ~IsEcho(messages[1]) /\ IsEcho(messages[3])
    /\ Len(visited) = 3
    /\ visited[1] = <<2, messages[3]>>

\* C8 as stated: [user, assistant, user] is visited as assistant, then user
\* (index 2), then user (index 0).
ReverseVisitAssistantFirst ==
    (/\ template = "qwen3"
     /\ RolesOf(messages) = <<"user", "assistant", "user">>
     /\ Len(visited) = 3) =>
        /\ visited[1][2].role = "assistant"
        /\ visited[2] = <<2, messages[3]>>
        /\ visited[3] = <<0, messages[1]>>

Declarative == template \in DeclarativeTemplates

\* What lies between the texts of message k - 1 and message k.
Gap(k) == SubSeq(out, seg[k - 1][2] + 1, seg[k][1])

\* text is formatter f with its placeholder replaced by c.
Fills(f, c, text) ==
    \E j \in 1..Len(f) :
        /\ f[j] = PLACEHOLDER
        /\ text = SubSeq(f, 1, j - 1) \o c \o SubSeq(f, j + 1, Len(f))

\* The formatter of a role, for the content-carrying turns.
RoleFormatter(t, role) ==
    CASE role = "system" -> system_formatter(t)
      [] role = "user" -> user_formatter(t)
      [] role = "assistant" -> assistant_formatter(t)
      [] role = "tool" -> observation_formatter(t)

CarriesToolCalls(k) ==
    messages[k].role = "assistant" /\ Truthy(messages[k].tool_calls)

Unsupported(k) ==
    /\ messages[k].role \notin {"system", "user", "assistant"}
    /\ ~(messages[k].role = "tool" /\ template = "qwen2_for_tool")

\* C10: qwen2_for_tool renders a tool message with its observation_formatter
\* and an assistant message that carries tool calls with its
\* function_formatter; qwen2 and yi1_5 fail with UnsupportedRole on a tool
\* message; a message whose role has no formatter fails the render with
\* UnsupportedRole, and no output is returned.
ToolDispatch ==
    Declarative =>
        /\ (template = "qwen2_for_tool" /\ pc # "error") =>
              \A k \in 1..Len(seg) :
                  /\ messages[k].role = "tool" =>
                        Text(k) = <<IM_START, "tool", NL>> \o messages[k].content
                                  \o <<IM_END, NL>>
                  /\ CarriesToolCalls(k) =>
                        /\ Fills(function_formatter(template).val,
                                 FunctionContent(messages[k].tool_calls.val), Text(k))
                        /\ IsPrefix(<<IM_START, "assistant", NL, NAME_OPEN>>, Text(k))
        /\ \A k \in 1..Len(seg) : ~Unsupported(k)
        /\ pc \in {"done", "error"} =>
              /\ pc = "error" <=> \E k \in 1..Len(messages) : Unsupported(k)
              /\ pc = "error" => err = "UnsupportedRole" /\ out = <<>>
              /\ pc = "done" => err = "none" /\ Len(seg) = Len(messages)

\* qwen2 meets a tool message after a user message: the render fails.
ToolDispatchWitness ==
    /\ template = "qwen2"
    /\ pc = "error"
    /\ RolesOf(messages) = <<"user", "tool">>
    /\ Len(seg) = 1
    /\ err = "UnsupportedRole"
    /\ out = <<>>

\* ------------------------------------------------------------------ encoder

\* Longest rendered text encoded, most tokens, most generation spans.
MaxTextLen == 4
MaxTokens == 3
MaxSpans == 2

\* The label of a position that carries no loss.
IGNORE_INDEX == -100

Min(a, b) == IF a <= b THEN a ELSE b

\* A rendered text of n bytes.
TextOf(n) == [k \in 1..n |-> "a"]

\* The non-decreasing sequences of k offsets into a text of n bytes.
Cuts(n, k) == {c \in [1..k -> 0..n] : \A j \in 1..(k - 1) : c[j] <= c[j + 1]}

\* The span lists an evaluation can hand over: half-open ranges inside the
\* text, in order and not overlapping.
SpanLists(n) ==
    UNION {{[j \in 1..k |-> <<c[2 * j - 1], c[2 * j]>>] : c \in Cuts(n, 2 * k)} :
              k \in 0..MaxSpans}

\* The id the tokenizer gives the token text[s:e].
TokenId(s, e) == e - s

Token(s, e) == [id |-> TokenId(s, e), start |-> s, end |-> e]

\* The tokenizations whose tokens lie end to end from 0 to n.
Covering(n) ==
    UNION {{[j \in 1..k |-> Token(IF j = 1 THEN 0 ELSE c[j - 1], IF j = k THEN n ELSE c[j])] :
               c \in Cuts(n, k - 1)} : k \in 1..MaxTokens}
    \cup (IF n = 0 THEN {<<>>} ELSE {})

RemoveAt(q, k) == SubSeq(q, 1, k - 1) \o SubSeq(q, k + 1, Len(q))

\* What a tokenizer may report: a covering tokenization, or one with a token lost.
Tokenizations(n) ==
    Covering(n) \cup UNION {{RemoveAt(enc, k) : k \in 1..Len(enc)} : enc \in Covering(n)}

\* The reported offsets monotonically cover a text of n bytes.
Covers(enc, n) ==
    IF enc = <<>>
    THEN n = 0
    ELSE /\ enc[1].start = 0
         /\ enc[Len(enc)].end = n
         /\ \A k \in 1..Len(enc) : enc[k].start <= enc[k].end
         /\ \A k \in 1..(Len(enc) - 1) : enc[k + 1].start = enc[k].end

\* Mutant: a token counts only when it lies wholly inside the span.
OverlapsContained(tok, sp) ==
    sp[1] <= tok.start /\ tok.end <= sp[2] /\ tok.start < tok.end

\* The token's range and the span share a non-empty range.
Overlaps(tok, sp) == Max(tok.start, sp[1]) < Min(tok.end, sp[2])

\* The label of a token: its id inside a generation span, the sentinel outside.
Label(tok, sps) ==
    IF \E k \in 1..Len(sps) : Overlaps(tok, sps[k]) THEN tok.id ELSE IGNORE_INDEX

EncoderInit ==
    /\ InitFinetuner
    /\ template = "qwen2_5"
    /\ messages = <<>>
    /\ tools = <<>>
    /\ add_generation_prompt = FALSE
    /\ enable_thinking = "undefined"
    /\ index0 = 0
    /\ rindex0 = 0
    /\ ns = NoNamespace
    /\ content = <<>>
    /\ reasoning_content = <<>>
    /\ genStack = <<>>
    /\ maxOpen = 0
    /\ seg = <<>>
    /\ visited = <<>>
    /\ err = "none"
    /\ pc = "encode"
    /\ input_ids = <<>>
    /\ labels = <<>>
    /\ \E n \in 0..MaxTextLen :
          /\ out = TextOf(n)
          /\ spans \in SpanLists(n)
          /\ encoding \in Tokenizations(n)

\* The encoder on a text, its spans and its tokenization.
Encode ==
    /\ pc = "encode"
    /\ Covers(encoding, Len(out))
    /\ input_ids' = [k \in 1..Len(encoding) |-> encoding[k].id]
    /\ labels' = [k \in 1..Len(encoding) |-> Label(encoding[k], spans)]
    /\ pc' = "encoded"
    /\ UNCHANGED <<template, messages, tools, add_generation_prompt, enable_thinking,
                   index0, rindex0, ns, content, reasoning_content, out, spans,
                   genStack, maxOpen, seg, visited, err, encoding, finetunerVars>>

\* The reported offsets do not cover the text: nothing is produced.
OffsetMismatch ==
    /\ pc = "encode"
    /\ ~Covers(encoding, Len(out))
    /\ Fail("OffsetMismatch")

EncoderNext ==
    \/ Encode
    \/ OffsetMismatch

EncoderSpec == EncoderInit /\ [][EncoderNext]_vars

\* Some byte of the text lies both in the k-th token and in a generation span.
InSomeSpan(k) ==
    \E b \in 0..(Len(out) - 1) :
        /\ encoding[k].start <= b /\ b < encoding[k].end
        /\ \E j \in 1..Len(spans) : spans[j][1] <= b /\ b < spans[j][2]

\* C11: for a text, a span list and a tokenization whose offsets cover the text,
\* the encoder produces as many labels as token ids, one per token; a token's
\* label is its id exactly when the token shares at least one byte with some
\* generation span (a token that straddles a span boundary included), and is
\* the ignore sentinel -100 otherwise.
EncoderLabelMask ==
    pc = "encoded" =>
        /\ Covers(encoding, Len(out))
        /\ Len(input_ids) = Len(encoding)
        /\ Len(labels) = Len(input_ids)
        /\ \A k \in 1..Len(encoding) :
              /\ input_ids[k] = encoding[k].id
              /\ InSomeSpan(k) => labels[k] = input_ids[k]
              /\ ~InSomeSpan(k) => labels[k] = 0 - 100

\* A token that straddles the start of a span keeps its id; the token before
\* it, outside every span, is masked.
EncoderLabelMaskWitness ==
    /\ pc = "encoded"
    /\ Len(spans) = 1
    /\ \E k \in 2..Len(encoding) :
          /\ encoding[k].start < spans[1][1]
          /\ spans[1][1] < encoding[k].end
          /\ labels[k] = input_ids[k]
          /\ labels[k - 1] = 0 - 100

\* An assistant message without tool calls: the attribute missing, or empty.
LacksToolCalls(m) == m.role = "assistant" /\ ~(m.tool_calls.kind = "value" /\ m.tool_calls.val # <<>>)

\* C12: in every Jinja template an assistant message without a tool_calls
\* attribute, or with an empty tool_calls list, is rendered without an error as
\* a plain assistant turn (role header, content, "<|im_end|>\n", one generation
\* span) with no <tool_call> block; in QWEN3_TEMPLATE an assistant message
\* without a reasoning_content attribute is rendered without an error too, its
\* reasoning taken from the content.  No render of a non-empty conversation
\* ends in an error, and every message the loop has passed has its text.
MissingAttributesFalsy ==
    Jinja =>
        /\ pc = "error" => messages = <<>>
        /\ pc \in {"loop", "prompt", "done"} => Len(seg) = index0 /\ err = "none"
        /\ pc \in {"prompt", "done"} => index0 = Len(messages)
        /\ \A k \in 1..Len(seg) :
              /\ LacksToolCalls(messages[k]) =>
                    /\ Count(Text(k), TOOL_CALL) = 0
                    /\ Cardinality(SpansOf(k)) = 1
                    /\ IsPrefix(<<IM_START, "assistant", NL>>, Text(k))
                    /\ IsSuffix(<<IM_END, NL>>, Text(k))
                    /\ template \in JinjaTemplates25 =>
                          Text(k) = <<IM_START, "assistant", NL>> \o messages[k].content
                                    \o <<IM_END, NL>>
              /\ (template = "qwen3" /\ messages[k].role = "assistant"
                    /\ messages[k].reasoning_content.kind = "undefined"
                    /\ ~Contains(messages[k].content, END_THINK)
                    /\ LacksToolCalls(messages[k])) =>
                    /\ IsPrefix(<<IM_START, "assistant", NL>>, Text(k))
                    /\ IsSuffix(LStrip(messages[k].content, NL) \o <<IM_END, NL>>, Text(k))

\* QWEN3_TEMPLATE has rendered an assistant message that has neither a
\* tool_calls nor a reasoning_content attribute, after one whose tool_calls
\* list is empty.
MissingAttributesFalsyWitness ==
    /\ template = "qwen3"
    /\ pc = "done"
    /\ err = "none"
    /\ Len(messages) = 3
    /\ messages[2].role = "assistant" /\ messages[2].tool_calls = Value(<<>>)
    /\ messages[3].role = "assistant" /\ messages[3].tool_calls = Undefined
    /\ messages[3].reasoning_content = Undefined
    /\ Count(out, TOOL_CALL) = 0
    /\ Len(spans) = 2

\* C13: the render of a Jinja template ends in an evaluation error, with no
\* output, exactly when the message list is empty (messages[0] is then out of
\* range); on a non-empty list every neighbour index the tool branch reads,
\* loop.index0 - 1 or loop.index0 + 1, lies in [0, len(messages) - 1].
IndexSafety ==
    Jinja =>
        /\ pc = "error" <=> (messages = <<>> /\ pc # "idle")
        /\ pc = "error" => err = "UndefinedError" /\ out = <<>> /\ spans = <<>>
        /\ messages = <<>> => out = <<>> /\ seg = <<>>
        /\ messages # <<>> => err = "none"
        /\ \A k \in 1..Len(messages) :
              messages[k].role = "tool" =>
                  \A j \in NeighbourLookups(messages, k - 1) :
                      0 <= j /\ j <= Len(messages) - 1

\* The render of an empty conversation has failed.
IndexSafetyWitness ==
    /\ Jinja
    /\ messages = <<>>
    /\ pc = "error"
    /\ err = "UndefinedError"
    /\ out = <<>>

\* C14: in every Jinja template no generation span of an assistant turn
\* includes the "<|im_start|>assistant" role header: each span of the turn
\* starts after the header and holds no "<|im_start|>".
HeaderOutsideSpans ==
    Jinja =>
        \A k \in 1..Len(seg) :
            messages[k].role = "assistant" =>
                \A j \in SpansOf(k) :
                    /\ spans[j][1] >= seg[k][1] + Len(<<IM_START, "assistant">>)
                    /\ Count(Covered(spans[j]), IM_START) = 0

\* What the template emitted before the message loop.
HeaderText == SubSeq(out, 1, IF seg = <<>> THEN Len(out) ELSE seg[1][1])

HeaderDone == pc \in {"scan", "loop", "prompt", "done"}

\* C15: in the QWEN2_5 family the output of a non-empty conversation begins
\* with one "<|im_start|>system\n" block, with or without tools; the block
\* opens with messages[0].content when messages[0] is a system message and with
\* the template's default prompt otherwise, and that text is followed by
\* "<|im_end|>\n" without tools and by the tools section with tools; the message
\* loop emits nothing for a system message in first position and an ordinary
\* turn for a system message in a later position.  QWEN3_TEMPLATE emits nothing
\* before the message loop when it has no tools and no leading system message.
SystemBlock ==
    (Jinja /\ HeaderDone) =>
        /\ template \in JinjaTemplates25 =>
              LET prompt == IF messages[1].role = "system"
                            THEN messages[1].content
                            ELSE <<DefaultPrompt(template)>>
              IN  /\ IsPrefix(<<IM_START, "system", NL>> \o prompt
                              \o (IF tools = <<>> THEN <<IM_END, NL>> ELSE <<NL, NL, TOOLS_INTRO>>),
                              HeaderText)
                  /\ tools = <<>> =>
                        HeaderText = <<IM_START, "system", NL>> \o prompt \o <<IM_END, NL>>
                  /\ IsSuffix(<<IM_END, NL>>, HeaderText)
                  /\ Count(HeaderText, IM_START) = 1
                  /\ Count(HeaderText, IM_END) = 1
        /\ \A k \in 1..Len(seg) :
              messages[k].role = "system" =>
                  Text(k) = (IF k = 1
                             THEN <<>>
                             ELSE <<IM_START, "system", NL>> \o messages[k].content
                                  \o <<IM_END, NL>>)
        /\ (template = "qwen3" /\ tools = <<>> /\ messages[1].role # "system") =>
              HeaderText = <<>>

\* [system, user, system] rendered with tools by a QWEN2_5 template: the first
\* system message is in the block only, the second is an ordinary turn.
SystemBlockWitness ==
    /\ template \in JinjaTemplates25
    /\ pc = "done"
    /\ tools # <<>>
    /\ RolesOf(messages) = <<"system", "user", "system">>
    /\ Text(1) = <<>>
    /\ Text(3) = <<IM_START, "system", NL>> \o messages[3].content \o <<IM_END, NL>>
    /\ Count(out, IM_START) = 3

\* C16: when the message loop has ended, the output ends with the last
\* message's rendering; the final step leaves it as it is when
\* add_generation_prompt is false and appends "<|im_start|>assistant\n" when it
\* is true, followed in QWEN3_TEMPLATE by "<think>\n\n</think>\n\n" exactly when
\* enable_thinking is supplied and false; with enable_thinking not supplied the
\* render ends without an error and without a think block.  No span is added.
GenerationPromptAppended ==
    /\ []((Jinja /\ pc = "prompt" /\ seg # <<>>) => seg[Len(seg)][2] = Len(out))
    /\ [][(Jinja /\ pc = "prompt") =>
             /\ pc' = "done"
             /\ err' = "none"
             /\ spans' = spans
             /\ out' = out
                  \o (IF add_generation_prompt' THEN <<IM_START, "assistant", NL>> ELSE <<>>)
                  \o (IF add_generation_prompt' /\ template = "qwen3"
                         /\ enable_thinking' = "false"
                      THEN <<THINK, NL, NL, END_THINK, NL, NL>>
                      ELSE <<>>)]_vars

\* QWEN3_TEMPLATE rendered with the generation prompt and enable_thinking not
\* supplied: the output ends with the prompt alone.
GenerationPromptAppendedWitness ==
    /\ template = "qwen3"
    /\ pc = "done"
    /\ err = "none"
    /\ add_generation_prompt
    /\ enable_thinking = "undefined"
    /\ seg # <<>>
    /\ SubSeq(out, seg[Len(seg)][2] + 1, Len(out)) = <<IM_START, "assistant", NL>>

\* The number of places where c occurs in text.
Occurrences(c, text) ==
    Cardinality({a \in 0..(Len(text) - Len(c)) : SubSeq(text, a + 1, a + Len(c)) = c})

\* C17: in the QWEN2_5 family, once the message loop has ended without an
\* error, every message's content stands in the output exactly once, in
\* conversation order, whatever the message's role: the content of a leading
\* system message in the system block, that of every other message in the text
\* the loop emitted for that message.
NoMessageDropped ==
    (template \in JinjaTemplates25 /\ pc \in {"prompt", "done"}) =>
        \A k \in 1..Len(messages) :
            messages[k].content # <<>> =>
                Occurrences(messages[k].content,
                            IF k = 1 /\ messages[k].role = "system"
                            THEN HeaderText
                            ELSE Text(k)) = 1

\* ------------------------------------------------------- Finetuner.group_text

\* Largest small block size and model length tried, most texts in a batch,
\* longest tokenized text.
MaxBlockSize == 3
MaxExamples == 2
MaxExampleLen == 3

\* The block size used when data_args.block_size is unset and the model allows more.
DEFAULT_BLOCK_SIZE == 1024

\* No render: the template variables at rest.
NoRender ==
    /\ template = "qwen2_5"
    /\ messages = <<>>
    /\ tools = <<>>
    /\ add_generation_prompt = FALSE
    /\ enable_thinking = "undefined"
    /\ index0 = 0
    /\ rindex0 = 0
    /\ ns = NoNamespace
    /\ content = <<>>
    /\ reasoning_content = <<>>
    /\ out = <<>>
    /\ spans = <<>>
    /\ genStack = <<>>
    /\ maxOpen = 0
    /\ seg = <<>>
    /\ visited = <<>>
    /\ err = "none"

renderVars ==
    <<template, messages, tools, add_generation_prompt, enable_thinking, index0,
      rindex0, ns, content, reasoning_content, out, spans, genStack, maxOpen, seg,
      visited, err>>

\* Lengths a model may allow, block sizes a user may ask for: small ones, and
\* those around the default.
ModelMaxLengths == (1..MaxBlockSize) \cup {DEFAULT_BLOCK_SIZE, DEFAULT_BLOCK_SIZE + 1}

BlockSizes == (1..MaxBlockSize) \cup {DEFAULT_BLOCK_SIZE, DEFAULT_BLOCK_SIZE + 1}

\* data_args.block_size: not given, or a number.
Unset == [kind |-> "none", val |-> 0]
Given(n) == [kind |-> "value", val |-> n]

\* Mutant: a block size above the model's length is kept whatever the flag says.
BlockSizeAsRequested(requested, max_length, truncate) ==
    IF requested.kind = "none"
    THEN IF max_length > DEFAULT_BLOCK_SIZE THEN DEFAULT_BLOCK_SIZE ELSE max_length
    ELSE requested.val

\* The block size group_text settles on.
BlockSize(requested, max_length, truncate) ==
    IF requested.kind = "none"
    THEN IF max_length > DEFAULT_BLOCK_SIZE THEN DEFAULT_BLOCK_SIZE ELSE max_length
    ELSE IF requested.val > max_length
         THEN IF truncate THEN max_length ELSE requested.val
         ELSE requested.val

\* The keys of a tokenized batch, in the order of the dict.
Keys == <<"input_ids", "labels">>

\* The tokenized text number e of a batch, n tokens long; when masked, the
\* label of its first token is the ignore sentinel.
InputIds(e, n) == [j \in 1..n |-> 10 * e + j]

Labels(e, n, masked) ==
    [j \in 1..n |-> IF masked /\ j = 1 THEN IGNORE_INDEX ELSE 10 * e + j]

\* The batches handed to group_texts: per key one list per text, the lists of
\* a text equally long under every key.
Batches ==
    {[input_ids |-> [e \in 1..Len(lens) |-> InputIds(e, lens[e])],
      labels |-> [e \in 1..Len(lens) |-> Labels(e, lens[e], masked)]] :
        lens \in SeqsUpTo(0..MaxExampleLen, MaxExamples), masked \in BOOLEAN}

\* list(chain(*lists))
RECURSIVE Chain(_)
Chain(lists) == IF lists = <<>> THEN <<>> ELSE Head(lists) \o Chain(Tail(lists))

\* t[i : j], for 0 <= i <= j: the slice stops at the end of t.
Slice(t, i, j) == SubSeq(t, i + 1, Min(j, Len(t)))

\* Mutant: the remainder is kept.
TotalLengthKept(length, size) == length

\* (total_length // block_size) * block_size
TotalLength(length, size) == (length \div size) * size

\* range(0, total, size), as a sequence.
Range(total, size) ==
    [n \in 1..((total + size - 1) \div size) |-> (n - 1) * size]

\* group_texts(examples)
group_texts(ex, size) ==
    LET concatenated_examples == [k \in DOMAIN ex |-> Chain(ex[k])]
        total_length == TotalLength(Len(concatenated_examples[Keys[1]]), size)
        starts == Range(total_length, size)
    IN  [k \in DOMAIN ex |->
            [n \in 1..Len(starts) |->
                Slice(concatenated_examples[k], starts[n], starts[n] + size)]]

GroupTextInit ==
    /\ NoRender
    /\ InitEncoder
    /\ pc = "group_text"
    /\ output_dir = "absent"
    /\ do_train = FALSE
    /\ overwrite_output_dir = FALSE
    /\ resume_from_checkpoint = "None"
    /\ last_checkpoint = "None"
    /\ seed = FALSE
    /\ checkpoint = "None"
    /\ data_block_size \in {Unset} \cup {Given(n) : n \in BlockSizes}
    /\ model_max_length \in ModelMaxLengths
    /\ truncate_to_model_max_length \in BOOLEAN
    /\ block_size = 0
    /\ examples = <<>>
    /\ result = <<>>

\* Finetuner.group_text up to the definition of group_texts: the block size.
GroupText ==
    /\ pc = "group_text"
    /\ block_size' = BlockSize(data_block_size, model_max_length,
                               truncate_to_model_max_length)
    /\ pc' = "map"
    /\ UNCHANGED <<renderVars, encoderVars, output_dir, do_train, overwrite_output_dir,
                   resume_from_checkpoint, last_checkpoint, seed, data_block_size,
                   model_max_length, truncate_to_model_max_length, examples, result,
                   checkpoint>>

\* tokenized_datasets.map(group_texts, batched=True) on one batch.
GroupTexts ==
    /\ pc = "map"
    /\ \E batch \in Batches :
          /\ examples' = batch
          /\ result' = group_texts(batch, block_size)
    /\ pc' = "grouped"
    /\ UNCHANGED <<renderVars, encoderVars, output_dir, do_train, overwrite_output_dir,
                   resume_from_checkpoint, last_checkpoint, seed, data_block_size,
                   model_max_length, truncate_to_model_max_length, block_size,
                   checkpoint>>

GroupTextNext ==
    \/ GroupText
    \/ GroupTexts

GroupTextSpec == GroupTextInit /\ [][GroupTextNext]_vars

\* C18: for a batch whose keys all have the same concatenated length L,
\* group_texts returns under every key floor(L / block_size) chunks, each
\* exactly block_size long, which laid end to end are the first
\* floor(L / block_size) * block_size elements of that key's concatenated
\* input; the other L mod block_size elements are dropped, and a batch with
\* L < block_size gives no chunk.
GroupTextsChunks ==
    pc = "grouped" =>
        \A k \in {"input_ids", "labels"} :
            LET t == Chain(examples[k])
                n == Len(t) \div block_size
            IN  /\ Len(t) = Len(Chain(examples.input_ids))
                /\ Len(result[k]) = n
                /\ \A c \in 1..Len(result[k]) :
                      /\ Len(result[k][c]) = block_size
                      /\ \A j \in 1..Len(result[k][c]) :
                            result[k][c][j] = t[(c - 1) * block_size + j]
                /\ Len(t) < block_size => result[k] = <<>>
                /\ Len(Chain(result[k])) = Len(t) - (Len(t) % block_size)

\* Two texts of 3 and 2 tokens in blocks of 2: two chunks, the fifth token dropped.
GroupTextsChunksWitness ==
    /\ pc = "grouped"
    /\ block_size = 2
    /\ Len(examples.input_ids) = 2
    /\ Len(Chain(examples.input_ids)) = 5
    /\ result.input_ids = <<(<<11, 12>>), (<<13, 21>>)>>
    /\ Len(result.labels) = 2

OutputDirs == {"absent", "file", "empty", "files", "checkpoint"}

\* The path --resume_from_checkpoint may give, and the one get_last_checkpoint finds.
RESUME_PATH == "resume/checkpoint-7"
LAST_PATH == "output_dir/checkpoint-3"

\* os.path.isdir(output_dir)
IsDir(dir) == dir \in {"empty", "files", "checkpoint"}

\* get_last_checkpoint(output_dir), of a directory
get_last_checkpoint(dir) == IF dir = "checkpoint" THEN LAST_PATH ELSE "None"

\* len(os.listdir(output_dir)) > 0
NonEmpty(dir) == dir \in {"files", "checkpoint"}

\* Mutant: the search for a last checkpoint runs whatever overwrite_output_dir says.
DetectsDespiteOverwrite(dir, train, overwrite) == IsDir(dir) /\ train

\* The test that guards the search for a last checkpoint.
Detects(dir, train, overwrite) == IsDir(dir) /\ train /\ ~overwrite

\* Mutant: the detected checkpoint comes before the requested one.
CheckpointLastFirst(resume, last) ==
    IF last # "None" THEN last ELSE IF resume # "None" THEN resume ELSE "None"

\* The checkpoint tune hands to trainer.train.
Checkpoint(resume, last) ==
    IF resume # "None" THEN resume ELSE IF last # "None" THEN last ELSE "None"

FinetunerInit ==
    /\ NoRender
    /\ InitEncoder
    /\ pc = "new"
    /\ output_dir \in OutputDirs
    /\ do_train \in BOOLEAN
    /\ overwrite_output_dir \in BOOLEAN
    /\ resume_from_checkpoint \in {"None", RESUME_PATH}
    /\ last_checkpoint = "None"
    /\ seed = FALSE
    /\ data_block_size = Unset
    /\ model_max_length = 0
    /\ truncate_to_model_max_length = FALSE
    /\ block_size = 0
    /\ examples = <<>>
    /\ result = <<>>
    /\ checkpoint = "None"

\* Finetuner.__init__ when it returns: the last checkpoint noted, the seed set.
Construct ==
    /\ pc = "new"
    /\ LET found == IF Detects(output_dir, do_train, overwrite_output_dir)
                    THEN get_last_checkpoint(output_dir)
                    ELSE "None"
       IN  /\ ~(Detects(output_dir, do_train, overwrite_output_dir)
                /\ found = "None" /\ NonEmpty(output_dir))
           /\ last_checkpoint' = found
    /\ seed' = TRUE
    /\ pc' = "constructed"
    /\ UNCHANGED <<renderVars, encoderVars, output_dir, do_train, overwrite_output_dir,
                   resume_from_checkpoint, data_block_size, model_max_length,
                   truncate_to_model_max_length, block_size, examples, result,
                   checkpoint>>

\* Finetuner.__init__ when it raises ValueError: the output directory exists,
\* is not empty and holds no checkpoint.
ConstructFails ==
    /\ pc = "new"
    /\ Detects(output_dir, do_train, overwrite_output_dir)
    /\ get_last_checkpoint(output_dir) = "None"
    /\ NonEmpty(output_dir)
    /\ pc' = "error"
    /\ err' = "ValueError"
    /\ UNCHANGED <<template, messages, tools, add_generation_prompt, enable_thinking,
                   index0, rindex0, ns, content, reasoning_content, out, spans,
                   genStack, maxOpen, seg, visited, encoderVars, finetunerVars>>

\* Finetuner.tune with do_train: trainer.train(resume_from_checkpoint=checkpoint).
Train ==
    /\ pc = "constructed"
    /\ do_train
    /\ checkpoint' = Checkpoint(resume_from_checkpoint, last_checkpoint)
    /\ pc' = "trained"
    /\ UNCHANGED <<renderVars, encoderVars, output_dir, do_train, overwrite_output_dir,
                   resume_from_checkpoint, last_checkpoint, seed, data_block_size,
                   model_max_length, truncate_to_model_max_length, block_size,
                   examples, result>>

\* Finetuner.tune without do_train: no training step.
TuneWithoutTraining ==
    /\ pc = "constructed"
    /\ ~do_train
    /\ pc' = "tuned"
    /\ UNCHANGED <<renderVars, encoderVars, finetunerVars>>

FinetunerNext ==
    \/ Construct
    \/ ConstructFails
    \/ Train
    \/ TuneWithoutTraining

FinetunerSpec == FinetunerInit /\ [][FinetunerNext]_vars

\* C20: when do_train is set, tune resumes from resume_from_checkpoint if it is
\* set, otherwise from the last checkpoint noted when the Finetuner was
\* constructed, otherwise from scratch (None); a last checkpoint is noted only
\* when output_dir is a directory, do_train is set and overwrite_output_dir is
\* not, so with overwrite_output_dir training never resumes from a checkpoint
\* found in output_dir; without do_train nothing is resumed.
CheckpointChoice ==
    /\ pc = "trained" =>
          /\ do_train
          /\ resume_from_checkpoint # "None" => checkpoint = resume_from_checkpoint
          /\ (resume_from_checkpoint = "None" /\ last_checkpoint # "None") =>
                checkpoint = last_checkpoint
          /\ (resume_from_checkpoint = "None" /\ last_checkpoint = "None") =>
                checkpoint = "None"
          /\ overwrite_output_dir => checkpoint \in {"None", resume_from_checkpoint}
    /\ pc \in {"constructed", "trained", "tuned"} =>
          /\ last_checkpoint # "None" =>
                /\ output_dir = "checkpoint"
                /\ do_train
                /\ ~overwrite_output_dir
          /\ (output_dir = "checkpoint" /\ do_train /\ ~overwrite_output_dir) =>
                last_checkpoint = "output_dir/checkpoint-3"
    /\ pc # "trained" => checkpoint = "None"

\* A checkpoint lies in output_dir and was noted, but a checkpoint to resume
\* from is given: training resumes from the given one.
CheckpointChoiceWitness ==
    /\ pc = "trained"
    /\ output_dir = "checkpoint"
    /\ ~overwrite_output_dir
    /\ last_checkpoint = "output_dir/checkpoint-3"
    /\ resume_from_checkpoint = "resume/checkpoint-7"
    /\ checkpoint = "resume/checkpoint-7"

\* The arguments under which Finetuner.__init__ raises: output_dir is a
\* directory that is not empty and holds no checkpoint, do_train is set and
\* overwrite_output_dir is not.
GuardTrips ==
    /\ output_dir = "files"
    /\ do_train
    /\ ~overwrite_output_dir

\* C21: constructing a Finetuner fails with ValueError exactly when output_dir
\* is an existing non-empty directory without a checkpoint, do_train is set and
\* overwrite_output_dir is not; the failure comes before the seed is set and
\* no training step follows it; in every other case construction succeeds
\* with the seed set; and a training step that starts from scratch (checkpoint
\* None) never runs into a non-empty output directory unless
\* overwrite_output_dir was given.
OutputDirGuard ==
    /\ [](/\ pc = "error" =>
                /\ GuardTrips
                /\ err = "ValueError"
                /\ ~seed
                /\ last_checkpoint = "None"
                /\ checkpoint = "None"
          /\ pc \in {"constructed", "trained", "tuned"} =>
                /\ ~GuardTrips
                /\ err = "none"
                /\ seed
          /\ (pc = "trained" /\ checkpoint = "None"
                 /\ output_dir \in {"files", "checkpoint"}) =>
                overwrite_output_dir)
    /\ [][pc = "new" => (pc' = "error" <=> GuardTrips)]_vars
    /\ [][pc # "error"]_vars

\* Construction was refused: files lie in output_dir, none of them a
\* checkpoint, training was asked for without overwrite_output_dir, and the
\* seed was never set.
OutputDirGuardWitness ==
    /\ pc = "error"
    /\ err = "ValueError"
    /\ output_dir = "files"
    /\ do_train
    /\ ~overwrite_output_dir
    /\ resume_from_checkpoint = "resume/checkpoint-7"
    /\ ~seed

====
